---- MODULE Spec2Model ----
(***************************************************************************)
(* Model of auth0_rs (src/src/lib.rs, src/src/error.rs): a key store built *)
(* from a JWKS document (Auth0::new, Auth0::update_keys) and the token     *)
(* validation pipeline (Auth0::validate_token).                            *)
(*                                                                         *)
(* The JSON parser (serde_json) and the JWT codec (jsonwebtoken) are       *)
(* external; they are modelled by what the calls in lib.rs rely on: a JWKS *)
(* text is a structured value whose fields may be missing, a token is a    *)
(* header, a payload and a signature that records which private key and    *)
(* which scheme produced it.                                               *)
(***************************************************************************)
EXTENDS Naturals, Sequences, FiniteSets

VARIABLES auth0, ret, wr, rd

vars == <<auth0, ret, wr, rd>>

\* Longest keys array of a JWKS document.
MaxKeys == 2

\* Number of threads calling validate_token on the shared instance.
NumReaders == 2

\* Marks a JSON field that is not present, and Option::None.
Missing == "<missing>"

------------------------------------------------------------------------------
(* Input domains *)

Kids == {"k1", "k2"}

Mods == {"nA", "nB"}

Exps == {"AQAB"}

\* A JSON object of the keys array, as written in the document.
Entry(alg, kty, n, e, kid) ==
  [alg |-> alg, kty |-> kty, use |-> "sig", n |-> n, e |-> e, kid |-> kid]

ValidEntries ==
  { Entry("RS256", "RSA", "nA", "AQAB", "k1"),
    Entry("RS384", "RSA", "nB", "AQAB", "k1"),
    Entry("RS256", "EC",  "nB", "AQAB", "k2") }

InvalidEntries ==
  { Entry("RS256", "RSA", Missing, "AQAB", "k1"),
    Entry("RS256", "RSA", "nA", Missing, "k1"),
    Entry("RS256", "RSA", "nA", "AQAB", Missing) }

Entries == ValidEntries \cup InvalidEntries

SeqsUpTo(S, n) == UNION { [1..k -> S] : k \in 0..n }

\* The texts handed to Auth0::new and Auth0::update_keys: text that is not
\* JSON, a JSON object without a keys array, and JSON with a keys array.
JwksStrs ==
  { [kind |-> "garbage", keys |-> <<>>], [kind |-> "no_keys", keys |-> <<>>] }
    \cup { [kind |-> "jwks", keys |-> s] : s \in SeqsUpTo(Entries, MaxKeys) }

NoJwks == [kind |-> "none", keys |-> <<>>]

\* A signature segment: the scheme and the key pair that produced it over this
\* token's header and payload; BadSig verifies under no key (a tampered one).
Sig(scheme, n, e) == [scheme |-> scheme, n |-> n, e |-> e]

BadSig == Sig("bad", Missing, Missing)

Sigs == { Sig("RS256", "nA", "AQAB"), Sig("RS256", "nB", "AQAB"),
          Sig("RS384", "nB", "AQAB"), BadSig }

\* A payload segment: whether it decodes to JSON, whether its registered
\* claims pass the default validation (exp), and the claims it encodes.
Payload(json, exp_ok, claims) == [json |-> json, exp_ok |-> exp_ok, claims |-> claims]

Payloads == { Payload(TRUE, TRUE, "claimsA"), Payload(TRUE, TRUE, "claimsB"),
              Payload(TRUE, FALSE, "claimsA"), Payload(FALSE, FALSE, Missing) }

Token(hdr, alg, kid, sig, payload) ==
  [hdr |-> hdr, alg |-> alg, kid |-> kid, sig |-> sig, payload |-> payload]

\* A token whose header segment does not decode at all.
GarbageToken == Token("garbage", Missing, Missing, BadSig, Payload(FALSE, FALSE, Missing))

NoToken == Token("none", Missing, Missing, BadSig, Payload(FALSE, FALSE, Missing))

\* The alg values a token header may name; "none" is not an Algorithm.
HeaderAlgs == {"RS256", "RS384", "none"}

Tokens ==
  {GarbageToken} \cup
  { Token("ok", a, k, s, p) :
      a \in HeaderAlgs, k \in Kids \cup {Missing}, s \in Sigs, p \in Payloads }

------------------------------------------------------------------------------
(* JWKS parsing: serde_json::from_str::<Jwks> *)

\* The fields of JsonWebKey that are not Option: alg, kty, key_use ("use"),
\* n, e, kid.
RequiredFields_lenient == {"kid"}

RequiredFields == {"alg", "kty", "use", "n", "e", "kid"}

\* One element of the keys array deserialized into a JsonWebKey: the JSON
\* field "use" becomes key_use. The Option fields x5c and x5t are never read
\* and are left out.
JsonWebKey(entry) ==
  [alg |-> entry.alg, kty |-> entry.kty, key_use |-> entry.use,
   n |-> entry.n, e |-> entry.e, kid |-> entry.kid]

EntryOk(entry) == \A f \in RequiredFields : entry[f] # Missing

\* serde_json::from_str::<Jwks>(jwks_str): the whole document or an error.
from_str(jwks_str) ==
  IF jwks_str.kind # "jwks"
    THEN [ok |-> FALSE, keys |-> <<>>]
  ELSE IF \E i \in 1..Len(jwks_str.keys) : ~EntryOk(jwks_str.keys[i])
    THEN [ok |-> FALSE, keys |-> <<>>]
  ELSE [ok |-> TRUE,
        keys |-> [i \in 1..Len(jwks_str.keys) |-> JsonWebKey(jwks_str.keys[i])]]

------------------------------------------------------------------------------
(* The key map *)

EmptyMap == [k \in {} |-> Missing]

insert_keep_first(key_map, kid, key) ==
  [k \in DOMAIN key_map \cup {kid} |-> IF k \in DOMAIN key_map THEN key_map[k] ELSE key]

\* HashMap::insert: the new value replaces the one stored under the same kid.
insert(key_map, kid, key) ==
  [k \in DOMAIN key_map \cup {kid} |-> IF k = kid THEN key ELSE key_map[k]]

RECURSIVE fold_insert(_, _)
fold_insert(key_map, keys) ==
  IF Len(keys) = 0 THEN key_map
  ELSE fold_insert(insert(key_map, keys[1].kid, keys[1]),
                   [i \in 1..(Len(keys) - 1) |-> keys[i + 1]])

\* Auth0::jwks_to_keymap: insert every key under its kid, in document order.
jwks_to_keymap(keys) == fold_insert(EmptyMap, keys)

------------------------------------------------------------------------------
(* Results *)

NoAuth0 == [built |-> FALSE, key_map |-> EmptyMap]

Call(fn, n, e, alg) == [fn |-> fn, n |-> n, e |-> e, alg |-> alg]

\* What validate_token returns (res, claims), with the library calls it made.
Out(res, claims, calls) == [res |-> res, claims |-> claims, calls |-> calls]

------------------------------------------------------------------------------
(* Auth0::new and Auth0::update_keys *)

new(jwks_str) ==
  LET keys == from_str(jwks_str) IN
  IF ~keys.ok
    THEN [res |-> "InvalidJwksStr", auth0 |-> NoAuth0]
    ELSE [res |-> "Ok", auth0 |-> [built |-> TRUE, key_map |-> jwks_to_keymap(keys.keys)]]

update_keys_merge(self, jwks_str) ==
  LET keys == from_str(jwks_str) IN
  IF ~keys.ok
    THEN [res |-> "InvalidJwksStr", auth0 |-> self]
    ELSE [res |-> "Ok",
          auth0 |-> [self EXCEPT !.key_map = fold_insert(self.key_map, keys.keys)]]

update_keys_clear_first(self, jwks_str) ==
  LET keys == from_str(jwks_str) IN
  IF ~keys.ok
    THEN [res |-> "InvalidJwksStr", auth0 |-> [self EXCEPT !.key_map = EmptyMap]]
    ELSE [res |-> "Ok",
          auth0 |-> [self EXCEPT !.key_map = jwks_to_keymap(keys.keys)]]

update_keys(self, jwks_str) ==
  LET keys == from_str(jwks_str) IN
  IF ~keys.ok
    THEN [res |-> "InvalidJwksStr", auth0 |-> self]
    ELSE [res |-> "Ok",
          auth0 |-> [self EXCEPT !.key_map = jwks_to_keymap(keys.keys)]]

------------------------------------------------------------------------------
(* The JWT codec: jsonwebtoken::{decode_header, decode, DecodingKey,       *)
(* Validation, Algorithm}, as validate_token uses them                     *)

\* The variants of Algorithm the model keeps.
Algorithm == {"RS256", "RS384"}

\* decode_header(token): the header, unverified; an error when the segment
\* does not decode or names an alg that is no Algorithm.
decode_header(token) ==
  IF token.hdr = "ok" /\ token.alg \in Algorithm
    THEN [ok |-> TRUE, alg |-> token.alg, kid |-> token.kid]
    ELSE [ok |-> FALSE, alg |-> Missing, kid |-> Missing]

\* DecodingKey::from_rsa_components(modulus, exponent)
from_rsa_components(modulus, exponent) == [n |-> modulus, e |-> exponent]

\* Validation::new(alg): the one accepted algorithm; exp is validated and the
\* signature is verified.
Validation_new(alg) ==
  [algorithms |-> {alg}, validate_exp |-> TRUE, validate_signature |-> TRUE]

\* Whether the signature segment verifies under the public key with alg.
verify(sig, key, alg) ==
  /\ key.n \in Mods
  /\ key.e \in Exps
  /\ sig.scheme = alg
  /\ sig.n = key.n
  /\ sig.e = key.e

\* decode::<Value>(token, key, validation): the claims of the payload, or the
\* first error of: header, algorithm, signature, payload JSON, exp.
decode(token, key, validation) ==
  LET header == decode_header(token) IN
  IF ~header.ok THEN [ok |-> FALSE, err |-> "InvalidToken", claims |-> Missing]
  ELSE IF header.alg \notin validation.algorithms
    THEN [ok |-> FALSE, err |-> "InvalidAlgorithm", claims |-> Missing]
  ELSE IF validation.validate_signature /\ ~verify(token.sig, key, header.alg)
    THEN [ok |-> FALSE, err |-> "InvalidSignature", claims |-> Missing]
  ELSE IF ~token.payload.json
    THEN [ok |-> FALSE, err |-> "Json", claims |-> Missing]
  ELSE IF validation.validate_exp /\ ~token.payload.exp_ok
    THEN [ok |-> FALSE, err |-> "ExpiredSignature", claims |-> Missing]
  ELSE [ok |-> TRUE, err |-> Missing, claims |-> token.payload.claims]

------------------------------------------------------------------------------
(* Auth0::validate_token *)

\* Mutations of the verify-and-decode step: the algorithm read from the token
\* header, the signature check switched off, modulus and exponent swapped.
verify_and_decode_header_alg(key, token) ==
  LET alg == decode_header(token).alg
      decoded == decode(token, from_rsa_components(key.n, key.e), Validation_new(alg))
  IN Out(IF decoded.ok THEN "Ok" ELSE "InvalidToken", decoded.claims,
         <<Call("decode", key.n, key.e, alg)>>)

verify_and_decode_no_signature(key, token) ==
  LET decoded == decode(token, from_rsa_components(key.n, key.e),
                        [Validation_new("RS256") EXCEPT !.validate_signature = FALSE])
  IN Out(IF decoded.ok THEN "Ok" ELSE "InvalidToken", decoded.claims,
         <<Call("decode", key.n, key.e, "RS256")>>)

verify_and_decode_swapped(key, token) ==
  LET decoded == decode(token, from_rsa_components(key.e, key.n), Validation_new("RS256"))
  IN Out(IF decoded.ok THEN "Ok" ELSE "InvalidToken", decoded.claims,
         <<Call("decode", key.e, key.n, "RS256")>>)

\* The last step of validate_token: decode with the resolved key's n and e
\* under Validation::new(Algorithm::RS256); every error becomes InvalidToken.
verify_and_decode(key, token) ==
  LET decoded == decode(token, from_rsa_components(key.n, key.e), Validation_new("RS256"))
  IN Out(IF decoded.ok THEN "Ok" ELSE "InvalidToken", decoded.claims,
         <<Call("decode", key.n, key.e, "RS256")>>)

HeaderCall == Call("decode_header", Missing, Missing, Missing)

GetCall == Call("get", Missing, Missing, Missing)

\* The first step: the kid of the unverified header.
key_id_of(token) ==
  LET header == decode_header(token) IN
  IF ~header.ok THEN [res |-> "InvalidToken", kid |-> Missing]
  ELSE IF header.kid = Missing THEN [res |-> "TokenMissingKeyId", kid |-> Missing]
  ELSE [res |-> "Ok", kid |-> header.kid]

\* Mutations of validate_token: every key of the store is tried when the kid
\* is unknown; the first key of the store is used when the header has no kid.
AnyKeyOut(key_map, token, calls) ==
  IF \E k \in DOMAIN key_map : verify_and_decode(key_map[k], token).res = "Ok"
    THEN LET k == CHOOSE k \in DOMAIN key_map : verify_and_decode(key_map[k], token).res = "Ok"
             out == verify_and_decode(key_map[k], token)
         IN Out(out.res, out.claims, calls \o out.calls)
    ELSE Out("NoMatchKey", Missing, calls)

validate_token_try_all(key_map, token) ==
  LET key_id == key_id_of(token) IN
  IF key_id.res # "Ok" THEN Out(key_id.res, Missing, <<HeaderCall>>)
  ELSE IF key_id.kid \notin DOMAIN key_map
    THEN AnyKeyOut(key_map, token, <<HeaderCall, GetCall>>)
  ELSE LET out == verify_and_decode(key_map[key_id.kid], token)
       IN Out(out.res, out.claims, <<HeaderCall, GetCall>> \o out.calls)

validate_token_kid_fallback(key_map, token) ==
  LET key_id == key_id_of(token) IN
  IF key_id.res = "InvalidToken" THEN Out(key_id.res, Missing, <<HeaderCall>>)
  ELSE IF key_id.res = "TokenMissingKeyId"
    THEN AnyKeyOut(key_map, token, <<HeaderCall>>)
  ELSE IF key_id.kid \notin DOMAIN key_map
    THEN Out("NoMatchKey", Missing, <<HeaderCall, GetCall>>)
  ELSE LET out == verify_and_decode(key_map[key_id.kid], token)
       IN Out(out.res, out.claims, <<HeaderCall, GetCall>> \o out.calls)

validate_token(key_map, token) ==
  LET key_id == key_id_of(token) IN
  IF key_id.res # "Ok" THEN Out(key_id.res, Missing, <<HeaderCall>>)
  ELSE IF key_id.kid \notin DOMAIN key_map
    THEN Out("NoMatchKey", Missing, <<HeaderCall, GetCall>>)
  ELSE LET out == verify_and_decode(key_map[key_id.kid], token)
       IN Out(out.res, out.claims, <<HeaderCall, GetCall>> \o out.calls)

------------------------------------------------------------------------------
(* The sequential program: one caller, whole calls *)

\* The last call: its name, its input, what it returned, and the key map
\* before it.
Ret(op, jwks_str, token, out, pre) ==
  [op |-> op, jwks |-> jwks_str, token |-> token, res |-> out.res,
   claims |-> out.claims, calls |-> out.calls, pre |-> pre]

NoOut == Out("none", Missing, <<>>)

WrIdle == [pc |-> "idle", keys |-> <<>>, key_map |-> EmptyMap, res |-> "none",
           old |-> EmptyMap, new |-> EmptyMap]

RdIdle == [pc |-> "idle", token |-> NoToken, kid |-> Missing, view |-> EmptyMap]

Readers == 1..NumReaders

Init ==
  /\ auth0 = NoAuth0
  /\ ret = Ret("none", NoJwks, NoToken, NoOut, EmptyMap)
  /\ wr = WrIdle
  /\ rd = [r \in Readers |-> RdIdle]

Auth0_new(jwks_str) ==
  LET r == new(jwks_str) IN
  /\ ~auth0.built
  /\ auth0' = r.auth0
  /\ ret' = Ret("new", jwks_str, NoToken, Out(r.res, Missing, <<>>), auth0.key_map)
  /\ UNCHANGED <<wr, rd>>

Auth0_update_keys(jwks_str) ==
  /\ auth0.built
  /\ LET r == update_keys(auth0, jwks_str) IN
     /\ auth0' = r.auth0
     /\ ret' = Ret("update_keys", jwks_str, NoToken, Out(r.res, Missing, <<>>), auth0.key_map)
  /\ UNCHANGED <<wr, rd>>

Auth0_validate_token(token) ==
  /\ auth0.built
  /\ ret' = Ret("validate_token", NoJwks, token, validate_token(auth0.key_map, token),
                auth0.key_map)
  /\ UNCHANGED <<auth0, wr, rd>>

Next ==
  \/ \E jwks_str \in JwksStrs : Auth0_new(jwks_str)
  \/ \E jwks_str \in JwksStrs : Auth0_update_keys(jwks_str)
  \/ \E token \in Tokens : Auth0_validate_token(token)

Spec == Init /\ [][Next]_vars
------------------------------------------------------------------------------
(* The shared instance: one thread calling update_keys (&mut self), and    *)
(* Readers calling validate_token (&self), each call taken step by step.   *)
(* A &mut self call starts only while no &self call is running, and a      *)
(* &self call only while no &mut self call is running.                     *)

\* The tokens the reader threads present.
ConcTokens ==
  {GarbageToken} \cup
  { Token("ok", "RS256", k, Sig("RS256", "nA", "AQAB"), Payload(TRUE, TRUE, "claimsA")) :
      k \in Kids \cup {Missing} }

InitConc ==
  /\ auth0 \in { new(jwks_str).auth0 : jwks_str \in { j \in JwksStrs : new(j).res = "Ok" } }
  /\ ret = Ret("none", NoJwks, NoToken, NoOut, EmptyMap)
  /\ wr = [WrIdle EXCEPT !.old = auth0.key_map, !.new = auth0.key_map]
  /\ rd = [r \in Readers |-> RdIdle]

\* update_keys, lines 103-106: parse; an error returns at once.
UpdateParse(jwks_str) ==
  /\ wr.pc = "idle"
  /\ \A r \in Readers : rd[r].pc = "idle"
  /\ LET keys == from_str(jwks_str) IN
     IF ~keys.ok
       THEN wr' = [wr EXCEPT !.res = "InvalidJwksStr"]
       ELSE wr' = [pc |-> "build", keys |-> keys.keys, key_map |-> EmptyMap,
                   res |-> "none", old |-> auth0.key_map,
                   new |-> jwks_to_keymap(keys.keys)]
  /\ UNCHANGED <<auth0, ret, rd>>

UpdateInsert_in_place ==
  /\ wr.pc = "build"
  /\ Len(wr.keys) > 0
  /\ LET m == insert(auth0.key_map, wr.keys[1].kid, wr.keys[1]) IN
     /\ auth0' = [auth0 EXCEPT !.key_map = m]
     /\ wr' = [wr EXCEPT !.key_map = m, !.keys = Tail(wr.keys)]
  /\ UNCHANGED <<ret, rd>>

\* jwks_to_keymap, lines 94-96: one turn of the loop, into the local map.
UpdateInsert ==
  /\ wr.pc = "build"
  /\ Len(wr.keys) > 0
  /\ wr' = [wr EXCEPT !.key_map = insert(wr.key_map, wr.keys[1].kid, wr.keys[1]),
                      !.keys = Tail(wr.keys)]
  /\ UNCHANGED <<auth0, ret, rd>>

\* update_keys, lines 108-109: the one assignment to self.key_map.
UpdateAssign ==
  /\ wr.pc = "build"
  /\ Len(wr.keys) = 0
  /\ auth0' = [auth0 EXCEPT !.key_map = wr.key_map]
  /\ wr' = [wr EXCEPT !.pc = "idle", !.res = "Ok", !.key_map = EmptyMap]
  /\ UNCHANGED <<ret, rd>>

\* validate_token, lines 114-125: the kid of the header, or an early return.
ValidateHeader(r, token) ==
  /\ rd[r].pc = "idle"
  /\ wr.pc = "idle"
  /\ LET key_id == key_id_of(token) IN
     IF key_id.res # "Ok"
       THEN /\ rd' = [rd EXCEPT ![r] = RdIdle]
            /\ ret' = Ret("validate_token", NoJwks, token,
                          Out(key_id.res, Missing, <<HeaderCall>>), auth0.key_map)
       ELSE /\ rd' = [rd EXCEPT ![r] = [RdIdle EXCEPT !.pc = "lookup", !.token = token,
                                                      !.kid = key_id.kid]]
            /\ UNCHANGED ret
  /\ UNCHANGED <<auth0, wr>>

\* validate_token, lines 127-132: self.key_map.get(&key_id); view is the map
\* the lookup read.
ValidateLookup(r) ==
  /\ rd[r].pc = "lookup"
  /\ IF rd[r].kid \notin DOMAIN auth0.key_map
       THEN /\ rd' = [rd EXCEPT ![r] = RdIdle]
            /\ ret' = Ret("validate_token", NoJwks, rd[r].token,
                          Out("NoMatchKey", Missing, <<HeaderCall, GetCall>>),
                          auth0.key_map)
       ELSE /\ rd' = [rd EXCEPT ![r] = [@ EXCEPT !.pc = "decode", !.view = auth0.key_map]]
            /\ UNCHANGED ret
  /\ UNCHANGED <<auth0, wr>>

\* validate_token, lines 134-145: decode with the key the lookup returned, and
\* return to the caller.
ValidateDecode(r) ==
  /\ rd[r].pc = "decode"
  /\ LET out == verify_and_decode(rd[r].view[rd[r].kid], rd[r].token) IN
     ret' = Ret("validate_token", NoJwks, rd[r].token,
                Out(out.res, out.claims, <<HeaderCall, GetCall>> \o out.calls),
                rd[r].view)
  /\ rd' = [rd EXCEPT ![r] = RdIdle]
  /\ UNCHANGED <<auth0, wr>>

NextConc ==
  \/ \E jwks_str \in JwksStrs : UpdateParse(jwks_str)
  \/ UpdateInsert
  \/ UpdateAssign
  \/ \E r \in Readers, token \in ConcTokens : ValidateHeader(r, token)
  \/ \E r \in Readers : ValidateLookup(r)
  \/ \E r \in Readers : ValidateDecode(r)

SpecConc == InitConc /\ [][NextConc]_vars
------------------------------------------------------------------------------
(* Vocabulary of the properties *)

\* The header decodes and carries a kid.
HasKid(token) == token.hdr = "ok" /\ token.alg \in Algorithm /\ token.kid # Missing

\* The token is signed with RS256 by the private counterpart of key's (n, e)
\* and passes the default validation: alg RS256, a JSON payload, exp in date.
SignedFor(token, key) ==
  /\ token.hdr = "ok"
  /\ token.alg = "RS256"
  /\ token.sig = Sig("RS256", key.n, key.e)
  /\ token.payload.json
  /\ token.payload.exp_ok

\* No later entry of the keys array carries the kid of entry i.
IsLastWithKid(keys, i) == \A j \in (i + 1)..Len(keys) : keys[j].kid # keys[i].kid

KidsOf(keys) == { keys[i].kid : i \in 1..Len(keys) }

\* The text is not JSON, has no keys array, or has an entry without n, e or kid.
Malformed(jwks_str) ==
  \/ jwks_str.kind \in {"garbage", "no_keys"}
  \/ \E i \in 1..Len(jwks_str.keys) :
       \/ jwks_str.keys[i].n = Missing
       \/ jwks_str.keys[i].e = Missing
       \/ jwks_str.keys[i].kid = Missing

DecodeCalls(calls) == { i \in 1..Len(calls) : calls[i].fn = "decode" }

Validated == ret.op = "validate_token"

\* The last validate_token call found its kid in the key map.
Resolved == Validated /\ HasKid(ret.token) /\ ret.token.kid \in DOMAIN ret.pre

------------------------------------------------------------------------------
(* C1 *)

\* C1 as stated: in a store just built by Auth0::new from a JWKS, for EVERY
\* entry K of the document and every token with K's kid that is signed for K,
\* validate_token returns Ok with the token's claims.
C1_AnyEntryRoundTrip ==
  (ret.op = "new" /\ ret.res = "Ok") =>
    \A i \in 1..Len(ret.jwks.keys) : \A t \in Tokens :
      (t.kid = ret.jwks.keys[i].kid /\ SignedFor(t, ret.jwks.keys[i])) =>
        /\ validate_token(auth0.key_map, t).res = "Ok"
        /\ validate_token(auth0.key_map, t).claims = t.payload.claims

\* C1 (amended): round trip. In a store just built by Auth0::new from a JWKS in
\* which K is the last entry carrying its kid, every token with K's kid that is
\* signed for K yields Ok with exactly the claims of its payload; and whenever
\* validate_token ran on a token whose kid resolved to a key it is signed for,
\* it returned Ok with exactly the payload's claims.
C1_RoundTrip ==
  /\ (ret.op = "new" /\ ret.res = "Ok") =>
       \A i \in 1..Len(ret.jwks.keys) : \A t \in Tokens :
         ( /\ IsLastWithKid(ret.jwks.keys, i)
           /\ t.kid = ret.jwks.keys[i].kid
           /\ SignedFor(t, ret.jwks.keys[i]) ) =>
           /\ validate_token(auth0.key_map, t).res = "Ok"
           /\ validate_token(auth0.key_map, t).claims = t.payload.claims
  /\ (Resolved /\ SignedFor(ret.token, ret.pre[ret.token.kid])) =>
       (ret.res = "Ok" /\ ret.claims = ret.token.payload.claims)

C1_Witness ==
  /\ Resolved
  /\ SignedFor(ret.token, ret.pre[ret.token.kid])
  /\ ret.res = "Ok"
  /\ ret.claims = "claimsB"

------------------------------------------------------------------------------
(* C2 *)

\* C2: unknown key. A token whose header decodes and carries a kid that is not
\* in the key map gets NoMatchKey, and decode (the signature check) was never
\* called, whatever the signature.
C2_UnknownKid ==
  (Validated /\ HasKid(ret.token) /\ ret.token.kid \notin DOMAIN ret.pre) =>
    (ret.res = "NoMatchKey" /\ ret.claims = Missing /\ DecodeCalls(ret.calls) = {})

\* The kid is unknown although a key of the store would verify the token.
C2_Witness ==
  /\ Validated /\ HasKid(ret.token) /\ ret.token.kid \notin DOMAIN ret.pre
  /\ \E k \in DOMAIN ret.pre : SignedFor(ret.token, ret.pre[k])
  /\ ret.res = "NoMatchKey"

------------------------------------------------------------------------------
(* C3 *)

\* C3: missing kid. A token whose header decodes but has no kid gets
\* TokenMissingKeyId for every store; only decode_header was called: no
\* lookup, no key tried.
C3_MissingKid ==
  (Validated /\ ret.token.hdr = "ok" /\ ret.token.alg \in Algorithm
     /\ ret.token.kid = Missing) =>
    (ret.res = "TokenMissingKeyId" /\ ret.claims = Missing /\ ret.calls = <<HeaderCall>>)

\* No kid, although a key of the store would verify the token.
C3_Witness ==
  /\ Validated /\ ret.token.hdr = "ok" /\ ret.token.kid = Missing
  /\ \E k \in DOMAIN ret.pre : SignedFor(ret.token, ret.pre[k])
  /\ ret.res = "TokenMissingKeyId"

------------------------------------------------------------------------------
(* C4 *)

\* C4: tampered signature. When the kid resolves and the signature does not
\* verify under the resolved key, the result is InvalidToken without claims;
\* and every failure after the lookup (signature, algorithm, exp, payload) is
\* InvalidToken.
C4_TamperedSignature ==
  /\ (Resolved /\ ret.token.sig # Sig("RS256", ret.pre[ret.token.kid].n,
                                      ret.pre[ret.token.kid].e)) =>
       (ret.res = "InvalidToken" /\ ret.claims = Missing)
  /\ (Resolved /\ ~SignedFor(ret.token, ret.pre[ret.token.kid])) =>
       (ret.res = "InvalidToken" /\ ret.claims = Missing)

\* An otherwise valid token whose signature segment was changed.
C4_Witness ==
  /\ Resolved
  /\ ret.token.sig = BadSig
  /\ ret.token.alg = "RS256" /\ ret.token.payload.json /\ ret.token.payload.exp_ok
  /\ ret.res = "InvalidToken"

------------------------------------------------------------------------------
(* C5 *)

\* C5: malformed JWKS. Auth0::new on text that is not JSON, has no keys array
\* or has an entry without n, e or kid returns InvalidJwksStr and no store,
\* also when other entries are valid.
C5_MalformedJwks ==
  (ret.op = "new" /\ Malformed(ret.jwks)) =>
    (ret.res = "InvalidJwksStr" /\ auth0 = NoAuth0)

\* A valid entry followed by one without n.
C5_Witness ==
  /\ ret.op = "new" /\ ret.jwks.kind = "jwks" /\ Len(ret.jwks.keys) = 2
  /\ ret.jwks.keys[1] \in ValidEntries
  /\ ret.jwks.keys[2].n = Missing
  /\ ret.res = "InvalidJwksStr"
  /\ ~auth0.built

------------------------------------------------------------------------------
(* C6 *)

\* C6: rotation replaces. After update_keys succeeded, the key map holds
\* exactly the kids of the new document, and every token carrying a kid that
\* only the previous map held gets NoMatchKey.
C6_RotationReplaces ==
  (ret.op = "update_keys" /\ ret.res = "Ok") =>
    /\ DOMAIN auth0.key_map = KidsOf(ret.jwks.keys)
    /\ \A k \in DOMAIN ret.pre \ KidsOf(ret.jwks.keys) : \A t \in Tokens :
         (HasKid(t) /\ t.kid = k) => validate_token(auth0.key_map, t).res = "NoMatchKey"

\* A rotation that drops a kid and keeps none of the old entries.
C6_Witness ==
  /\ ret.op = "update_keys" /\ ret.res = "Ok"
  /\ DOMAIN ret.pre = {"k1", "k2"}
  /\ KidsOf(ret.jwks.keys) = {"k1"}
  /\ DOMAIN auth0.key_map = {"k1"}

------------------------------------------------------------------------------
(* C7 *)

\* C7: failed rotation. update_keys on a document that does not parse returns
\* InvalidJwksStr, the key map is the one before the call, and validate_token
\* gives on every token what it gave before.
C7_FailedRotation ==
  (ret.op = "update_keys" /\ Malformed(ret.jwks)) =>
    /\ ret.res = "InvalidJwksStr"
    /\ auth0.built
    /\ auth0.key_map = ret.pre
    /\ \A t \in Tokens : validate_token(auth0.key_map, t) = validate_token(ret.pre, t)

\* A failed rotation of a non-empty store, by a document whose first entry is
\* valid.
C7_Witness ==
  /\ ret.op = "update_keys" /\ ret.res = "InvalidJwksStr"
  /\ ret.jwks.kind = "jwks" /\ Len(ret.jwks.keys) = 2
  /\ ret.jwks.keys[1] \in ValidEntries
  /\ DOMAIN ret.pre = {"k1", "k2"}
  /\ auth0.key_map = ret.pre

------------------------------------------------------------------------------
(* C8 *)

\* C8: duplicate kids. On a document whose entries are all well formed,
\* Auth0::new and update_keys succeed, the key map holds under each kid the
\* last entry of the document with that kid, and its kids are exactly the
\* document's.
C8_LastDuplicateWins ==
  (ret.op \in {"new", "update_keys"} /\ ret.jwks.kind = "jwks"
     /\ \A i \in 1..Len(ret.jwks.keys) : ret.jwks.keys[i] \in ValidEntries) =>
    /\ ret.res = "Ok"
    /\ DOMAIN auth0.key_map = KidsOf(ret.jwks.keys)
    /\ \A i \in 1..Len(ret.jwks.keys) :
         IsLastWithKid(ret.jwks.keys, i) =>
           auth0.key_map[ret.jwks.keys[i].kid] = JsonWebKey(ret.jwks.keys[i])

\* Two entries with the same kid and different key material.
C8_Witness ==
  /\ ret.op = "update_keys" /\ ret.res = "Ok"
  /\ Len(ret.jwks.keys) = 2
  /\ ret.jwks.keys[1].kid = ret.jwks.keys[2].kid
  /\ ret.jwks.keys[1].n # ret.jwks.keys[2].n
  /\ auth0.key_map[ret.jwks.keys[2].kid].n = ret.jwks.keys[2].n

------------------------------------------------------------------------------
(* C9 *)

KeyAlgs == {"RS256", "RS384", "HS256"}

KeyTypes == {"RSA", "EC", "oct"}

\* C9: algorithm pinning. Every decode validate_token made was with RS256 and
\* the resolved key's n and e; a token whose header names another algorithm
\* never yields claims, and gets InvalidToken when its kid resolves; the
\* result does not change with the stored key's alg or kty.
C9_AlgorithmPinned ==
  /\ Validated =>
       \A i \in DecodeCalls(ret.calls) :
         /\ Resolved
         /\ ret.calls[i] = Call("decode", ret.pre[ret.token.kid].n,
                                ret.pre[ret.token.kid].e, "RS256")
  /\ (Validated /\ ret.token.alg # "RS256") =>
       (ret.res # "Ok" /\ ret.claims = Missing)
  /\ (Resolved /\ ret.token.alg # "RS256") => ret.res = "InvalidToken"
  /\ Resolved =>
       \A a \in KeyAlgs, kty \in KeyTypes :
         LET other == [ret.pre EXCEPT ![ret.token.kid].alg = a,
                                      ![ret.token.kid].kty = kty]
         IN validate_token(other, ret.token) = validate_token(ret.pre, ret.token)

\* Header and stored key both name RS384 and the signature is a good RS384
\* signature of that key: rejected all the same.
C9_Witness ==
  /\ Resolved
  /\ ret.token.alg = "RS384"
  /\ ret.pre[ret.token.kid].alg = "RS384"
  /\ ret.token.sig = Sig("RS384", ret.pre[ret.token.kid].n, ret.pre[ret.token.kid].e)
  /\ ret.token.payload.json /\ ret.token.payload.exp_ok
  /\ ret.res = "InvalidToken"

------------------------------------------------------------------------------
(* C10 *)

\* C10: atomic rotation. In every state of the shared instance the key map is
\* the complete map from before the last rotation or the complete map of its
\* document, and so is the map every running validate_token call read at its
\* lookup; that call's kid is one of that map's.
C10_AtomicRotation ==
  /\ auth0.key_map \in {wr.old, wr.new}
  /\ \A r \in Readers :
       rd[r].pc = "decode" =>
         /\ rd[r].view \in {wr.old, wr.new}
         /\ rd[r].kid \in DOMAIN rd[r].view
  /\ \A r \in Readers : rd[r].pc # "idle" => wr.pc = "idle"

\* After a rotation that changed the map, one call has resolved its kid in
\* the new map while another call is between header and lookup.
C10_Witness ==
  /\ wr.res = "Ok"
  /\ wr.old # wr.new
  /\ DOMAIN wr.old \cap DOMAIN wr.new # {}
  /\ \E r \in Readers : rd[r].pc = "decode" /\ rd[r].view = wr.new
  /\ \E r \in Readers : rd[r].pc = "lookup"

====
